---- MODULE Spec2Model ----
(***************************************************************************)
(* Workflow orchestrator of the 3x3 story sequence maker (App component,   *)
(* src/unnamed/part_000) together with the Storyboard buttons that issue   *)
(* its commands and the two Generation Client calls it awaits.             *)
(*                                                                         *)
(* One action is one turn of the JavaScript event loop: a user event       *)
(* handler, or the continuation that runs when an awaited call settles.    *)
(* The continuation of handleStart that leaves the batch loop and writes   *)
(* COMPLETE is kept as the step Complete so that both writes of appState   *)
(* (GENERATING, then COMPLETE) are states of the model; while a run stands *)
(* at that step no other handler runs (Quiescent), as in the event loop.   *)
(*                                                                         *)
(* Encoding of values: NULL is 0.  A StoryConfig is identified by the      *)
(* number of the submission that created it (1, 2, ...).  An image url or  *)
(* an error message is represented by the number of the configuration the  *)
(* synthesis call that produced it was issued with.                        *)
(***************************************************************************)
EXTENDS Integers, Sequences, FiniteSets

\* ---------------------------------------------------------------- bounds
MaxCommands == 4    \* user commands (start, regenerate, reset) in one behaviour
MaxScenes == 3      \* longest scene list the planner returns under Spec
NineCommands == 2   \* user commands in one behaviour of SpecNine
LiveCommands == 2   \* user commands in one behaviour of SpecLive
ApiCommands == 5    \* user commands in one behaviour of SpecApi
ApiIds == 2         \* panel ids a direct regenerate command is called with
CacheCommands == 3  \* user commands in one behaviour of SpecCache, SpecCacheRuns
LiveScenes == 4     \* longest scene list the planner returns under SpecLive

\* ------------------------------------------------------ program constants
batchSize == 3
NumShotTypes == 9
NumScenes == 9      \* "exactly 9 distinct scenes" the prompt asks for
NULL == 0
MediumShot == 2     \* "Medium shot" is SHOT_TYPES[1]

VARIABLES
    appState,       \* useState<AppState>
    storyConfig,    \* useState<StoryConfig | null>
    panels,         \* useState<GeneratedPanel[]>
    env,            \* what the environment may do (never changes)
    ncmd,           \* number of user commands so far
    nruns,          \* number of handleStart invocations so far
    pc,             \* pc[r]: position of the r-th handleStart invocation
    initialPanels,  \* initialPanels[r]: the local of that invocation
    i,              \* i[r]: loop variable of that invocation
    results,        \* results[r]: outcomes of the calls of the current batch
    nregen,         \* number of generateSinglePanel invocations so far
    singles,        \* generateSinglePanel invocations awaiting their call
    discarded,      \* history: runs that were in their batch loop at a reset
    stale,          \* history: generateSinglePanel invocations in flight at a reset
    cachedCharacterDescription,  \* the module variable of the caching service
    referenceImage, \* referenceImage[c]: that field of the StoryConfig of submission c
    characterDesc   \* characterDesc[r][k]: analysis step of the k-th call of the batch

vars == <<appState, storyConfig, panels, env, ncmd, nruns, pc, initialPanels, i,
          results, nregen, singles, discarded, stale, cachedCharacterDescription,
          referenceImage, characterDesc>>

Runs == 1..MaxCommands

Min(a, b) == IF a < b THEN a ELSE b

\* ------------------------------------------------------------ planner
\* Scene ids as the model may return them: 1..n, or 1..n with the second
\* id repeating the first (the response schema only asks for an integer).
Ids(n) == [k \in 1..n |-> k]
RepeatFirst(n) == [k \in 1..n |-> IF k = 2 THEN 1 ELSE k]
IdLists(lens) == {Ids(n) : n \in lens} \cup {RepeatFirst(n) : n \in lens \ {0, 1}}

\* scenes.map((scene, index) => ({...scene, shotType: SHOT_TYPES[index] || "Medium Shot"}))
\* shotType k stands for SHOT_TYPES[k-1]; 0 stands for "Medium Shot".
generateStoryBreakdown(ids, run) ==
    [k \in 1..Len(ids) |->
        [id |-> ids[k],
         run |-> run,
         shotType |-> IF k <= NumShotTypes THEN k ELSE 0]]

\* Shot types as the model may return them for n scenes: the listed type of
\* each position, none at all, or the listed type of the next position.
ShotLists(n) ==
    {[k \in 1..n |-> k], [k \in 1..n |-> NULL], [k \in 1..n |-> (k % NumShotTypes) + 1]}

\* Parsed responses to the prompt of the second generateStoryBreakdown.
RawScenes(lens) ==
    UNION {{[k \in 1..Len(ids) |-> [scene_number |-> ids[k], shot_type |-> shots[k]]] :
                shots \in ShotLists(Len(ids))} : ids \in IdLists(lens)}

\* rawScenes.map((s, index) => ({ id: s.scene_number || index + 1, ...,
\*                               shotType: s.shot_type || s.shotType || "Medium shot" }))
generateStoryBreakdown2(rawScenes, run) ==
    [k \in 1..Len(rawScenes) |->
        [id |-> IF rawScenes[k].scene_number # NULL THEN rawScenes[k].scene_number ELSE k,
         run |-> run,
         shotType |-> IF rawScenes[k].shot_type # NULL THEN rawScenes[k].shot_type
                                                      ELSE MediumShot]]

initializePanels_mut(scenes) ==
    [k \in 1..Len(scenes) |->
        [id |-> scenes[k].id,
         sceneData |-> scenes[k],
         imageUrl |-> NULL,
         isLoading |-> FALSE,
         error |-> NULL]]

initializePanels(scenes) ==
    [k \in 1..Len(scenes) |->
        [id |-> scenes[k].id,
         sceneData |-> scenes[k],
         imageUrl |-> NULL,
         isLoading |-> TRUE,
         error |-> NULL]]

\* ------------------------------------------------------------ batches
\* initialPanels.slice(i, i + batchSize)
Slice(s, from, to) == SubSeq(s, from + 1, Min(to, Len(s)))

Pending(panel) == [status |-> "pending", id |-> panel.id, imageUrl |-> NULL, error |-> NULL]

IssueBatch_mut(ps, from) ==
    LET batch == Slice(ps, from, from + batchSize + 1)
    IN  [k \in 1..Len(batch) |-> Pending(batch[k])]

IssueBatch(ps, from) ==
    LET batch == Slice(ps, from, from + batchSize)
    IN  [k \in 1..Len(batch) |-> Pending(batch[k])]

\* updated.findIndex(p => p.id === id); 0 stands for -1
FindIndex(ps, id) ==
    IF \E k \in 1..Len(ps) : ps[k].id = id
    THEN CHOOSE k \in 1..Len(ps) :
            /\ ps[k].id = id
            /\ \A j \in 1..(k - 1) : ps[j].id # id
    ELSE 0

\* Results written by position in the batch instead of by panel id
ApplyResults_mut(updated, res, n) ==
    [j \in 1..Len(updated) |->
        IF j \in n..Len(res) /\ res[j].status = "fulfilled"
        THEN [updated[j] EXCEPT !.imageUrl = res[j].imageUrl,
                                !.isLoading = FALSE,
                                !.error = res[j].error]
        ELSE updated[j]]

\* The updater of the batch: for each result in turn, findIndex by id and
\* replace imageUrl, isLoading and error of that panel.
RECURSIVE ApplyResults(_, _, _)
ApplyResults(updated, res, n) ==
    IF n > Len(res) THEN updated
    ELSE LET idx == FindIndex(updated, res[n].id)
         IN  IF res[n].status = "fulfilled" /\ idx # 0
             THEN ApplyResults(
                    [updated EXCEPT ![idx] =
                        [@ EXCEPT !.imageUrl = res[n].imageUrl,
                                  !.isLoading = FALSE,
                                  !.error = res[n].error]],
                    res, n + 1)
             ELSE ApplyResults(updated, res, n + 1)

\* ------------------------------------------------------------ rendering
\* App renders <Storyboard> (and with it every button) only in this case.
StoryboardShown == appState \notin {"INPUT", "PLANNING"} /\ storyConfig # NULL
StoryInputShown == appState = "INPUT"

\* Retry button (error set) or Regenerate button (image set) of a panel
RegenerateButton(p) ==
    /\ ~p.isLoading
    /\ (p.error # NULL \/ p.imageUrl # NULL)

\* No continuation is in the middle of its turn.
Quiescent == \A r \in Runs : pc[r] # "exit"

\* ------------------------------------------------------------ initial state
InitWith(e) ==
    /\ appState = "INPUT"
    /\ storyConfig = NULL
    /\ panels = <<>>
    /\ env = e
    /\ ncmd = 0
    /\ nruns = 0
    /\ pc = [r \in Runs |-> "none"]
    /\ initialPanels = [r \in Runs |-> <<>>]
    /\ i = [r \in Runs |-> 0]
    /\ results = [r \in Runs |-> <<>>]
    /\ nregen = 0
    /\ singles = {}
    /\ discarded = {}
    /\ stale = {}
    /\ cachedCharacterDescription = NULL
    /\ referenceImage = [r \in Runs |-> NULL]
    /\ characterDesc = [r \in Runs |-> <<>>]

Init == InitWith([cmds |-> MaxCommands, runs |-> MaxCommands, lens |-> {0, MaxScenes}, cache |-> FALSE])

\* ------------------------------------------------------------ handleStart
\* What the user may have typed into the story field, and String.trim on it.
StoryTexts == {"", " ", "story"}
trim(storyText) == IF storyText = " " THEN "" ELSE storyText

\* handleSubmit without the imagePreview test
handleSubmit_mut(imagePreview, storyText) ==
    /\ ncmd' = ncmd + 1
    /\ IF trim(storyText) = ""
       THEN UNCHANGED <<nruns, storyConfig, referenceImage, appState, pc>>
       ELSE /\ nruns' = nruns + 1
            /\ storyConfig' = nruns + 1
            /\ referenceImage' = [referenceImage EXCEPT ![nruns + 1] = imagePreview]
            /\ appState' = "PLANNING"
            /\ pc' = [pc EXCEPT ![nruns + 1] = "planning"]
    /\ UNCHANGED <<cachedCharacterDescription, characterDesc, panels, env, initialPanels,
                   i, results, nregen, singles, discarded, stale>>

\* handleSubmit of StoryInput: returns when the image or the trimmed text is
\* missing, otherwise builds the StoryConfig and calls onStart, which is
\* handleStart up to its await of the planner.
handleSubmit(imagePreview, storyText) ==
    /\ ncmd' = ncmd + 1
    /\ IF imagePreview = NULL \/ trim(storyText) = ""
       THEN UNCHANGED <<nruns, storyConfig, referenceImage, appState, pc>>
       ELSE /\ nruns' = nruns + 1
            /\ storyConfig' = nruns + 1
            /\ referenceImage' = [referenceImage EXCEPT ![nruns + 1] = imagePreview]
            /\ appState' = "PLANNING"
            /\ pc' = [pc EXCEPT ![nruns + 1] = "planning"]
    /\ UNCHANGED <<cachedCharacterDescription, characterDesc, panels, env, initialPanels,
                   i, results, nregen, singles, discarded, stale>>

\* Submit of a filled form: reference image uploaded, story typed.
HandleStart ==
    /\ StoryInputShown
    /\ Quiescent
    /\ ncmd < env.cmds
    /\ nruns < env.runs
    /\ handleSubmit(nruns + 1, "story")

\* Submit of the form in whatever state its fields are.
SubmitCommand(imagePreview, storyText) ==
    /\ StoryInputShown
    /\ Quiescent
    /\ ncmd < env.cmds
    /\ nruns < env.runs
    /\ handleSubmit(imagePreview, storyText)

\* generateStoryBreakdown rejects, returns no text or text JSON.parse
\* refuses: control reaches the catch block.
PlanFailure(r) ==
    /\ pc[r] = "planning"
    /\ Quiescent
    /\ appState' = "INPUT"
    /\ pc' = [pc EXCEPT ![r] = "failed"]
    /\ UNCHANGED <<referenceImage, cachedCharacterDescription, characterDesc, storyConfig, panels, env, ncmd, nruns, initialPanels, i, results,
                   nregen, singles, discarded, stale>>

\* The description "Character from the reference image" that a call works
\* with when its analysis request failed; the description of the reference
\* image of run r is r, the empty text is NULL.
Fallback == MaxCommands + 1

\* The synchronous part of analyzeReferenceImage in each of the n calls of a
\* batch (caching service only): a non-empty cached description is returned
\* at once and the call goes on to its image request; otherwise the call
\* issues an analysis request and waits for it.
analyzeReferenceImage(n) ==
    IF env.cache
    THEN [k \in 1..n |->
            IF cachedCharacterDescription # NULL
            THEN [phase |-> "image", text |-> cachedCharacterDescription]
            ELSE [phase |-> "analysis", text |-> NULL]]
    ELSE <<>>

\* The continuation of handleStart after its await of the planner, given the
\* scenes generateStoryBreakdown resolved with.
Materialize(r, scenes) ==
    /\ pc[r] = "planning"
    /\ Quiescent
    /\ LET ps == initializePanels(scenes)
       IN  /\ initialPanels' = [initialPanels EXCEPT ![r] = ps]
           /\ panels' = ps
           /\ appState' = "GENERATING"
           /\ i' = [i EXCEPT ![r] = 0]
           /\ IF 0 < Len(ps)
              THEN /\ results' = [results EXCEPT ![r] = IssueBatch(ps, 0)]
                   /\ characterDesc' = [characterDesc EXCEPT ![r] =
                            analyzeReferenceImage(Len(IssueBatch(ps, 0)))]
                   /\ pc' = [pc EXCEPT ![r] = "batch"]
              ELSE /\ results' = results
                   /\ characterDesc' = characterDesc
                   /\ pc' = [pc EXCEPT ![r] = "exit"]
    /\ UNCHANGED <<referenceImage, cachedCharacterDescription, storyConfig, env, ncmd, nruns, nregen, singles, discarded, stale>>

PlanSuccess(r, ids) == Materialize(r, generateStoryBreakdown(ids, r))

\* The planner call settles with a response that the second
\* generateStoryBreakdown of services/geminiService.ts maps to scenes.
PlanMapped(r, rawScenes) == Materialize(r, generateStoryBreakdown2(rawScenes, r))

\* The outcome handleStart's .then/.catch wrappers make of a settled call.
Outcome(id, r, ok) ==
    IF ok THEN [status |-> "fulfilled", id |-> id, imageUrl |-> r, error |-> NULL]
          ELSE [status |-> "fulfilled", id |-> id, imageUrl |-> NULL, error |-> r]

\* Promise.all instead of Promise.allSettled: a failed call is not waited out
AllSettled_mut(res) ==
    \A k \in 1..Len(res) : res[k].status # "pending" /\ res[k].error = NULL

AllSettled(res) == \A k \in 1..Len(res) : res[k].status # "pending"

\* One generatePanelImage call of the current batch settles.  When it is the
\* last one, Promise.allSettled resolves and the loop body continues in the
\* same turn: the results are applied and the next batch is issued.
SettlePanelImage(r, k, ok) ==
    /\ pc[r] = "batch"
    /\ Quiescent
    /\ k \in 1..Len(results[r])
    /\ results[r][k].status = "pending"
    /\ env.cache => characterDesc[r][k].phase = "image"
    /\ ok => referenceImage[r] # NULL
    /\ LET res == [results[r] EXCEPT ![k] = Outcome(@.id, r, ok)]
           next == i[r] + batchSize
       IN  IF AllSettled(res)
           THEN /\ panels' = ApplyResults(panels, res, 1)
                /\ i' = [i EXCEPT ![r] = next]
                /\ IF next < Len(initialPanels[r])
                   THEN /\ results' = [results EXCEPT ![r] = IssueBatch(initialPanels[r], next)]
                        /\ characterDesc' = [characterDesc EXCEPT ![r] =
                              analyzeReferenceImage(Len(IssueBatch(initialPanels[r], next)))]
                        /\ pc' = pc
                   ELSE /\ results' = [results EXCEPT ![r] = <<>>]
                        /\ characterDesc' = [characterDesc EXCEPT ![r] = <<>>]
                        /\ pc' = [pc EXCEPT ![r] = "exit"]
           ELSE /\ results' = [results EXCEPT ![r] = res]
                /\ UNCHANGED <<panels, i, pc, characterDesc>>
    /\ UNCHANGED <<referenceImage, cachedCharacterDescription, appState, storyConfig, env, ncmd, nruns, initialPanels, nregen, singles, discarded, stale>>

\* The analysis request of the k-th call of the batch settles: with a text
\* (the description of the run's reference image, which is cached), with an
\* empty text (cached too, and as falsy as null), or with an error (the
\* fallback description, nothing cached).  The call then issues its image
\* request.
AnalysisSettles(r, k, out) ==
    /\ env.cache
    /\ pc[r] = "batch"
    /\ Quiescent
    /\ k \in 1..Len(characterDesc[r])
    /\ characterDesc[r][k].phase = "analysis"
    /\ LET description == IF out = "text" THEN r ELSE NULL
       IN  IF out = "error"
           THEN /\ characterDesc' = [characterDesc EXCEPT ![r][k] =
                        [phase |-> "image", text |-> Fallback]]
                /\ UNCHANGED cachedCharacterDescription
           ELSE /\ characterDesc' = [characterDesc EXCEPT ![r][k] =
                        [phase |-> "image", text |-> description]]
                /\ cachedCharacterDescription' = description
    /\ UNCHANGED <<referenceImage, appState, storyConfig, panels, env, ncmd, nruns, pc, initialPanels, i,
                   results, nregen, singles, discarded, stale>>

\* setAppState(AppState.COMPLETE) after the loop; handleStart returns and
\* its locals are gone.
Complete(r) ==
    /\ pc[r] = "exit"
    /\ appState' = "COMPLETE"
    /\ pc' = [pc EXCEPT ![r] = "done"]
    /\ initialPanels' = [initialPanels EXCEPT ![r] = <<>>]
    /\ i' = [i EXCEPT ![r] = 0]
    /\ discarded' = discarded \ {r}
    /\ UNCHANGED <<referenceImage, cachedCharacterDescription, characterDesc, storyConfig, panels, env, ncmd, nruns, results, nregen, singles, stale>>

\* ------------------------------------------------------------ regenerate
\* prev.map(p => p.id === id ? { ...p, isLoading: true, error: null } : p)
SetLoading_mut(ps, id) ==
    [k \in 1..Len(ps) |-> [ps[k] EXCEPT !.isLoading = TRUE, !.error = NULL]]

\* prev.map(p => p.id === id ? { ...p, isLoading: true, error: null } : p)
SetLoading(ps, id) ==
    [k \in 1..Len(ps) |->
        IF ps[k].id = id THEN [ps[k] EXCEPT !.isLoading = TRUE, !.error = NULL]
                         ELSE ps[k]]

\* prev.map(p => p.id === id ? { ...p, imageUrl, isLoading: false } : p)
SetImage(ps, id, imageUrl) ==
    [k \in 1..Len(ps) |->
        IF ps[k].id = id THEN [ps[k] EXCEPT !.imageUrl = imageUrl, !.isLoading = FALSE]
                         ELSE ps[k]]

\* prev.map(p => p.id === id ? { ...p, isLoading: false, error: message } : p)
SetError(ps, id, message) ==
    [k \in 1..Len(ps) |->
        IF ps[k].id = id THEN [ps[k] EXCEPT !.isLoading = FALSE, !.error = message]
                         ELSE ps[k]]

\* if (panel) without the storyConfig test
handleRegenerate_mut(panelId) ==
    LET idx == FindIndex(panels, panelId)
    IN  /\ ncmd' = ncmd + 1
        /\ IF idx # 0
           THEN /\ panels' = SetLoading(panels, panelId)
                /\ singles' = singles \cup
                     {[n |-> nregen + 1, id |-> panelId,
                       scene |-> panels[idx].sceneData, config |-> storyConfig,
                       retry |-> panels[idx].error # NULL,
                       state |-> appState]}
                /\ nregen' = nregen + 1
           ELSE UNCHANGED <<panels, singles, nregen>>
        /\ UNCHANGED <<referenceImage, cachedCharacterDescription, characterDesc, appState, storyConfig, env, nruns, pc, initialPanels, i, results,
                       discarded, stale>>

\* handleRegenerate(panelId): panels.find, then generateSinglePanel up to its
\* await when the panel exists and storyConfig is set. The fields retry and
\* state of the call record whether the panel showed an error, and the
\* appState, when the call was made.
handleRegenerate(panelId) ==
    LET idx == FindIndex(panels, panelId)
    IN  /\ ncmd' = ncmd + 1
        /\ IF idx # 0 /\ storyConfig # NULL
           THEN /\ panels' = SetLoading(panels, panelId)
                /\ singles' = singles \cup
                     {[n |-> nregen + 1, id |-> panelId,
                       scene |-> panels[idx].sceneData, config |-> storyConfig,
                       retry |-> panels[idx].error # NULL,
                       state |-> appState]}
                /\ nregen' = nregen + 1
           ELSE UNCHANGED <<panels, singles, nregen>>
        /\ UNCHANGED <<referenceImage, cachedCharacterDescription, characterDesc, appState, storyConfig, env, nruns, pc, initialPanels, i, results,
                       discarded, stale>>

\* Click on the Retry / Regenerate button of the panel at position k.
HandleRegenerate(k) ==
    /\ StoryboardShown
    /\ Quiescent
    /\ ncmd < env.cmds
    /\ k \in 1..Len(panels)
    /\ RegenerateButton(panels[k])
    /\ handleRegenerate(panels[k].id)

\* handleRegenerate called with an arbitrary panel id in an arbitrary state,
\* as the orchestrator's regenerate(panelId) command.
RegenerateCommand(panelId) ==
    /\ Quiescent
    /\ ncmd < env.cmds
    /\ handleRegenerate(panelId)

\* The generatePanelImage call of a generateSinglePanel invocation settles.
SettleSingle(s, ok) ==
    /\ s \in singles
    /\ Quiescent
    /\ ok => (s.config # NULL /\ referenceImage[s.config] # NULL)
    /\ panels' = IF ok THEN SetImage(panels, s.id, s.config)
                        ELSE SetError(panels, s.id, s.config)
    /\ singles' = singles \ {s}
    /\ stale' = stale \ {s.n}
    /\ UNCHANGED <<referenceImage, cachedCharacterDescription, characterDesc, appState, storyConfig, env, ncmd, nruns, pc, initialPanels, i, results,
                   nregen, discarded>>

\* ------------------------------------------------------------ reset
\* handleReset without setPanels([])
HandleReset_mut ==
    /\ StoryboardShown
    /\ Quiescent
    /\ ncmd < env.cmds
    /\ ncmd' = ncmd + 1
    /\ appState' = "INPUT"
    /\ storyConfig' = NULL
    /\ discarded' = discarded \cup {r \in Runs : pc[r] = "batch"}
    /\ stale' = stale \cup {s.n : s \in singles}
    /\ UNCHANGED <<referenceImage, cachedCharacterDescription, characterDesc, env, nruns, pc, initialPanels, i, results, nregen, singles, panels>>

HandleReset ==
    /\ StoryboardShown
    /\ Quiescent
    /\ ncmd < env.cmds
    /\ ncmd' = ncmd + 1
    /\ appState' = "INPUT"
    /\ storyConfig' = NULL
    /\ panels' = <<>>
    /\ discarded' = discarded \cup {r \in Runs : pc[r] = "batch"}
    /\ stale' = stale \cup {s.n : s \in singles}
    /\ UNCHANGED <<referenceImage, cachedCharacterDescription, characterDesc, env, nruns, pc, initialPanels, i, results, nregen, singles>>

\* ------------------------------------------------------------ specification
Next ==
    \/ HandleStart
    \/ \E r \in Runs : PlanFailure(r)
    \/ \E r \in Runs : \E ids \in IdLists(env.lens) : PlanSuccess(r, ids)
    \/ \E r \in Runs : \E k \in 1..batchSize : \E ok \in BOOLEAN : SettlePanelImage(r, k, ok)
    \/ \E r \in Runs : Complete(r)
    \/ \E k \in 1..Len(panels) : HandleRegenerate(k)
    \/ \E s \in singles : \E ok \in BOOLEAN : SettleSingle(s, ok)
    \/ HandleReset

Spec == Init /\ [][Next]_vars

\* One run, on a plan of nine scenes (three full batches), of seven scenes
\* (a short last batch) or of none, with regenerate and reset commands.
InitNine == InitWith([cmds |-> NineCommands, runs |-> 1, lens |-> {0, NumScenes - 2, NumScenes}, cache |-> FALSE])
SpecNine == InitNine /\ [][Next]_vars

\* The planner call and every synthesis call of a run eventually settle, and
\* a continuation that is ready to run does run.
Responsive(r) ==
    /\ WF_vars(PlanFailure(r) \/ \E ids \in IdLists(env.lens) : PlanSuccess(r, ids))
    /\ WF_vars(\E k \in 1..batchSize : \E ok \in BOOLEAN : SettlePanelImage(r, k, ok))
    /\ WF_vars(Complete(r))

\* The App on the second generateStoryBreakdown of services/geminiService.ts:
\* one run on a plan of MaxScenes scenes or of none.
NextMapped ==
    \/ HandleStart
    \/ \E r \in Runs : PlanFailure(r)
    \/ \E r \in Runs : \E rawScenes \in RawScenes(env.lens) : PlanMapped(r, rawScenes)
    \/ \E r \in Runs : \E k \in 1..batchSize : \E ok \in BOOLEAN : SettlePanelImage(r, k, ok)
    \/ \E r \in Runs : Complete(r)
    \/ \E k \in 1..Len(panels) : HandleRegenerate(k)
    \/ \E s \in singles : \E ok \in BOOLEAN : SettleSingle(s, ok)
    \/ HandleReset

InitMapped == InitWith([cmds |-> NineCommands, runs |-> 1, lens |-> {0, MaxScenes}, cache |-> FALSE])
SpecMapped == InitMapped /\ [][NextMapped]_vars

\* The commands of Next and direct regenerate(panelId) calls, on plans of
\* one scene.
NextApi ==
    \/ Next
    \/ \E panelId \in 1..ApiIds : RegenerateCommand(panelId)

InitApi == InitWith([cmds |-> ApiCommands, runs |-> MaxCommands, lens |-> {0, 1}, cache |-> FALSE])
SpecApi == InitApi /\ [][NextApi]_vars

\* The commands of Next and submits of a form that may be incomplete, on
\* plans of one scene.
NextSubmit ==
    \/ Next
    \/ \E imagePreview \in {NULL, nruns + 1} : \E storyText \in StoryTexts :
            SubmitCommand(imagePreview, storyText)

SpecSubmit == InitApi /\ [][NextSubmit]_vars

\* The App on the caching service, for runs whose panels are not regenerated.
NextCache ==
    \/ HandleStart
    \/ \E r \in Runs : PlanFailure(r)
    \/ \E r \in Runs : \E ids \in IdLists(env.lens) : PlanSuccess(r, ids)
    \/ \E r \in Runs : \E k \in 1..batchSize :
            \E out \in {"text", "empty", "error"} : AnalysisSettles(r, k, out)
    \/ \E r \in Runs : \E k \in 1..batchSize : \E ok \in BOOLEAN : SettlePanelImage(r, k, ok)
    \/ \E r \in Runs : Complete(r)
    \/ HandleReset

\* One run on a plan of a full batch and a short one.
InitCache == InitWith([cmds |-> CacheCommands, runs |-> 1,
                       lens |-> {batchSize + 1}, cache |-> TRUE])
SpecCache == InitCache /\ [][NextCache]_vars

\* Several runs, each on a plan of one scene.
InitCacheRuns == InitWith([cmds |-> CacheCommands, runs |-> CacheCommands,
                           lens |-> {1}, cache |-> TRUE])
SpecCacheRuns == InitCacheRuns /\ [][NextCache]_vars

InitLive == InitWith([cmds |-> LiveCommands, runs |-> 1, lens |-> {0, LiveScenes}, cache |-> FALSE])

SpecLive == InitLive /\ [][Next]_vars /\ Responsive(1)

\* ====================================================================
\* Properties
\* ====================================================================

\* Positions in the current batch of run r whose call awaits its response
PendingCalls(r) == {k \in 1..Len(results[r]) : results[r][k].status = "pending"}

\* C1: the completion (success or failure) of a regenerate call that was in
\* flight when reset was issued leaves panels, storyConfig and appState as
\* they are, also after a new run has materialized panels with the same ids.
C1_StaleRegenerateInert ==
    [][\A s \in singles : \A ok \in BOOLEAN :
            (s.n \in stale /\ SettleSingle(s, ok))
                => UNCHANGED <<panels, storyConfig, appState>>]_vars

\* C2: a batch of a run that was in GENERATING when reset was issued writes
\* no image, error or isLoading = false into any panel when it settles.
C2_DiscardedBatchInert ==
    [][\A r \in discarded : \A k \in 1..batchSize : \A ok \in BOOLEAN :
            SettlePanelImage(r, k, ok) => panels' = panels]_vars

\* C3: a run that was in GENERATING when reset was issued never changes
\* appState afterwards.
C3_DiscardedRunKeepsAppState ==
    [][\A r \in discarded :
            (Complete(r) \/ \E k \in 1..batchSize : \E ok \in BOOLEAN : SettlePanelImage(r, k, ok))
                => appState' = appState]_vars

\* The edges of the state machine of section 4.3
AppStateEdges ==
    {<<"INPUT", "PLANNING">>, <<"PLANNING", "GENERATING">>,
     <<"GENERATING", "COMPLETE">>, <<"PLANNING", "INPUT">>,
     <<"GENERATING", "INPUT">>, <<"COMPLETE", "INPUT">>}

\* C4: appState changes only along INPUT->PLANNING, PLANNING->GENERATING,
\* GENERATING->COMPLETE, PLANNING->INPUT, GENERATING->INPUT and
\* COMPLETE->INPUT.
C4_AppStateEdges ==
    [][appState' # appState => <<appState, appState'>> \in AppStateEdges]_vars

\* C5: when the planner call of a run fails, the run ends in INPUT with no
\* panel, no synthesis call issued and storyConfig null.
C5_PlanFailureKeepsNothing ==
    [][\A r \in Runs :
            PlanFailure(r) =>
                /\ appState' = "INPUT"
                /\ panels' = <<>>
                /\ results'[r] = <<>>
                /\ storyConfig' = NULL]_vars

InFlight ==
    Cardinality({c \in Runs \X (1..batchSize) : c[2] \in PendingCalls(c[1])})
        + Cardinality(singles)

\* C7: at most batchSize synthesis requests (batch calls and regenerate
\* calls together) are in flight at any time.

C7_InFlightBound == InFlight <= batchSize

\* Positions of initialPanels[r] in the batch the loop of run r stands at
BatchPositions(r) ==
    (i[r] + 1)..Min(i[r] + batchSize, Len(initialPanels[r]))

\* C8: the panels of a run are cut, in order, into consecutive batches of
\* batchSize (1-3, 4-6, 7-9 for nine panels); the calls a run has
\* outstanding are those of one batch, and the loop moves to the next batch
\* only in the step in which the last outstanding call of the current one
\* settles and its results are applied.

C8_BatchesSequential ==
    [][\A r \in Runs :
        /\ pc[r] = "batch" =>
             /\ i[r] % batchSize = 0
             /\ i[r] < Len(initialPanels[r])
             /\ Len(results[r]) = Cardinality(BatchPositions(r))
             /\ \A k \in 1..Len(results[r]) :
                    results[r][k].id = initialPanels[r][i[r] + k].id
             /\ Len(initialPanels[r]) = NumScenes =>
                    BatchPositions(r) \in {1..3, 4..6, 7..9}
        /\ pc[r] # "batch" => PendingCalls(r) = {}
        /\ (pc[r] = "batch" /\ i'[r] # i[r]) =>
             /\ i'[r] = i[r] + batchSize
             /\ Cardinality(PendingCalls(r)) = 1
             /\ \A k \in 1..Len(results[r]) :
                    LET idx == FindIndex(panels', results[r][k].id)
                    IN  idx # 0 => ~panels'[idx].isLoading
             /\ pc'[r] = "exit" <=> i'[r] >= Len(initialPanels[r])
             /\ pc'[r] = "batch" <=> i'[r] < Len(initialPanels[r])]_vars

C8_Witness ==
    \E r \in Runs :
        /\ pc[r] = "batch"
        /\ Len(initialPanels[r]) = NumScenes
        /\ i[r] = 2 * batchSize
        /\ PendingCalls(r) = {2}
        /\ \A k \in 1..(2 * batchSize) : ~panels[k].isLoading

\* Number (from 0) of the batch a position belongs to
BatchOfPosition(p) == (p - 1) \div batchSize

\* C9: while a run is in GENERATING and no regenerate has been issued, the
\* panels of each of its batches are all in their initial loading state or
\* all non-loading, and the panels of the batch whose calls are outstanding
\* are all in their initial loading state.

C9_BatchAtomicVisible ==
    \A r \in Runs :
        (pc[r] = "batch" /\ storyConfig = r /\ r \notin discarded
            /\ appState = "GENERATING" /\ nregen = 0) =>
        \A b \in 0..BatchOfPosition(Len(initialPanels[r])) :
            LET pos == {p \in 1..Len(initialPanels[r]) : BatchOfPosition(p) = b}
                Initial == \A p \in pos :
                    p \in DOMAIN panels /\ panels[p] = initialPanels[r][p]
                Terminal == \A p \in pos :
                    p \in DOMAIN panels /\ ~panels[p].isLoading
            IN  /\ Initial \/ Terminal
                /\ (b = BatchOfPosition(i[r] + 1) /\ PendingCalls(r) # {}) => Initial

\* C10: when the calls of a batch have settled, whatever the mix of failed
\* and succeeded calls, every panel of the batch is non-loading, a failed one
\* with error set and no image, a succeeded one with image set and no error,
\* and the next batch (if any) is issued.
C10_FailureIsolation ==
    [][\A r \in Runs :
        (pc[r] = "batch" /\ i'[r] # i[r] /\ storyConfig = r /\ r \notin discarded) =>
            /\ \A k \in 1..Len(results[r]) :
                 LET p == i[r] + k
                 IN  /\ p \in DOMAIN panels'
                     /\ ~panels'[p].isLoading
                     /\ (panels'[p].imageUrl = NULL) # (panels'[p].error = NULL)
                     /\ results[r][k].error # NULL => panels'[p].error # NULL
                     /\ results[r][k].imageUrl # NULL => panels'[p].imageUrl # NULL
            /\ i'[r] < Len(initialPanels[r]) =>
                 /\ pc'[r] = "batch"
                 /\ Len(results'[r]) > 0
                 /\ \A k \in 1..Len(results'[r]) : results'[r][k].status = "pending"]_vars

\* C11: with the planner call and every synthesis call settling, a run
\* that is not reset leaves PLANNING, and once in its batch loop reaches
\* COMPLETE, whatever the mix of succeeded and failed panels.
C11_CompletionUnconditional ==
    /\ (pc[1] = "planning") ~> (pc[1] # "planning")
    /\ (pc[1] = "batch" /\ 1 \notin discarded)
            ~> ((pc[1] = "done" /\ appState = "COMPLETE") \/ 1 \in discarded)

C11_Witness ==
    \E r \in Runs :
        /\ pc[r] = "done"
        /\ storyConfig = r
        /\ appState = "COMPLETE"
        /\ Len(panels) > batchSize
        /\ \A k \in 1..Len(panels) : ~panels[k].isLoading /\ panels[k].error # NULL

\* C12: when a run that was not reset writes COMPLETE while no regenerate
\* is in flight, every panel is terminal (isLoading = false), whatever scene
\* ids the planner returned.
C12_CompleteMeansTerminal ==
    [][\A r \in Runs :
        (Complete(r) /\ storyConfig = r /\ r \notin discarded /\ singles = {}) =>
            \A k \in 1..Len(panels') : ~panels'[k].isLoading]_vars

\* C13: every panel that is not loading has exactly one of imageUrl and
\* error set.
C13_ExactlyOneOfImageAndError ==
    \A k \in 1..Len(panels) :
        ~panels[k].isLoading => (panels[k].imageUrl = NULL) # (panels[k].error = NULL)

C15_RegenerateNoOp ==
    [][\A panelId \in 1..ApiIds :
        (/\ RegenerateCommand(panelId)
         /\ (storyConfig = NULL \/ FindIndex(panels, panelId) = 0)) =>
            UNCHANGED <<appState, storyConfig, panels, singles, nregen, results, pc>>]_vars

\* A command beyond the start was handled before the only run left planning:
\* until then no panel exists and the Storyboard is not shown, so the command
\* was a direct regenerate call and it left no trace but its count.
C15_Witness ==
    /\ nruns = 1
    /\ pc[1] = "planning"
    /\ ncmd > 1
    /\ nregen = 0
    /\ singles = {}
    /\ panels = <<>>
    /\ storyConfig = 1

\* C16: a regenerate on a failed panel of a COMPLETE run first makes the
\* panel loading with error null; when its call settles the panel is not
\* loading and has the image and no error on success, the error and no image
\* on failure; appState is COMPLETE throughout.
C16_RetryOfFailedPanel ==
    [][/\ \A k \in 1..Len(panels) :
            (HandleRegenerate(k) /\ appState = "COMPLETE" /\ panels[k].error # NULL) =>
                /\ panels'[k].isLoading
                /\ panels'[k].error = NULL
                /\ appState' = "COMPLETE"
       /\ \A s \in singles : \A ok \in BOOLEAN :
            (SettleSingle(s, ok) /\ s.retry /\ s.state = "COMPLETE" /\ s.n \notin stale) =>
                /\ appState = "COMPLETE"
                /\ appState' = "COMPLETE"
                /\ \A j \in 1..Len(panels') :
                      panels'[j].id = s.id =>
                        /\ ~panels'[j].isLoading
                        /\ IF ok
                           THEN panels'[j].imageUrl # NULL /\ panels'[j].error = NULL
                           ELSE panels'[j].error # NULL /\ panels'[j].imageUrl = NULL]_vars

\* C17: reset, in any state where it is available, leaves appState = INPUT,
\* storyConfig = null and an empty panel list.
C17_ResetClearsState ==
    [][HandleReset =>
        /\ appState \in {"GENERATING", "COMPLETE"}
        /\ appState' = "INPUT"
        /\ storyConfig' = NULL
        /\ panels' = <<>>]_vars

C17_Witness ==
    /\ appState = "INPUT"
    /\ storyConfig = NULL
    /\ panels = <<>>
    /\ discarded # {}

\* C18: the memoized character description is cleared at the start of every
\* run, so that no call of a run works with the description of the reference
\* image of another run.
C18_DescriptionOfOwnImage ==
    \A r \in Runs : \A k \in 1..Len(characterDesc[r]) :
        characterDesc[r][k].phase = "image" =>
            characterDesc[r][k].text \in {r, NULL, Fallback}

\* C19: within a run at most one reference-image analysis request is
\* outstanding, and the calls of a batch that have their description have
\* the same one.
C19_OneAnalysisPerRun ==
    \A r \in Runs :
        /\ Cardinality({k \in 1..Len(characterDesc[r]) :
                            characterDesc[r][k].phase = "analysis"}) <= 1
        /\ \A k, j \in 1..Len(characterDesc[r]) :
              (characterDesc[r][k].phase = "image" /\ characterDesc[r][j].phase = "image")
                  => characterDesc[r][k].text = characterDesc[r][j].text

\* C20: a plan that succeeds has exactly nine scenes whose ids are 1..9 in
\* ascending order; no other planner response materializes panels.
C20_PlanHasNineScenes ==
    [][\A r \in Runs :
        (pc[r] = "planning" /\ pc'[r] \in {"batch", "exit"}) =>
            /\ Len(panels') = NumScenes
            /\ \A k \in 1..Len(panels') : panels'[k].id = k]_vars

\* C21: after planning, the shotType of the scene at each position is the
\* entry of SHOT_TYPES at that position, whatever shot type, order or ids
\* the model returned.
C21_ShotTypeByPosition ==
    [][\A r \in Runs :
        (pc[r] = "planning" /\ pc'[r] \in {"batch", "exit"}) =>
            \A k \in 1..Len(panels') : panels'[k].sceneData.shotType = k]_vars

\* C22: a submit without a reference image starts no run: appState stays
\* INPUT and no planner or synthesis call is issued; every run that has
\* reached PLANNING carries a reference image in its configuration.
C22_NoRunWithoutReferenceImage ==
    [][/\ \A storyText \in StoryTexts :
            SubmitCommand(NULL, storyText) =>
                /\ appState' = "INPUT"
                /\ UNCHANGED <<storyConfig, nruns, pc, results, singles, panels>>
       /\ \A r \in Runs : pc'[r] # "none" => referenceImage'[r] # NULL]_vars

\* A command beyond the start was handled before the only run left planning:
\* until then only the form is shown, so the command was a refused submit.
C22_Witness ==
    /\ nruns = 1
    /\ pc[1] = "planning"
    /\ referenceImage[1] # NULL
    /\ ncmd > 1

\* C23: no outcome of a synthesis call, of a batch or of a regenerate, moves
\* appState or removes panels, and a step from GENERATING or COMPLETE to
\* INPUT is always the reset command.
C23_PanelFailuresNeverAbort ==
    [][/\ \A r \in Runs : \A k \in 1..batchSize : \A ok \in BOOLEAN :
            SettlePanelImage(r, k, ok) =>
                appState' = appState /\ Len(panels') = Len(panels)
       /\ \A s \in singles : \A ok \in BOOLEAN :
            SettleSingle(s, ok) =>
                appState' = appState /\ Len(panels') = Len(panels)
       /\ (appState \in {"GENERATING", "COMPLETE"} /\ appState' = "INPUT") =>
            HandleReset]_vars

\* C24: while the synthesis call of a regenerate is in flight no other
\* synthesis call is, neither one of a batch nor another regenerate.
C24_RegenerateAlone ==
    singles # {} =>
        /\ Cardinality(singles) = 1
        /\ \A r \in Runs : PendingCalls(r) = {}

\* C25: a step that settles a call of a batch, and with the last one applies
\* the batch's results, keeps the length and order of the panel list and
\* every panel's id and sceneData, and leaves every panel whose id is not in
\* the batch equal in all fields, in whatever order the calls settled.
C25_BatchApplyFrame ==
    [][\A r \in Runs : \A k \in 1..batchSize : \A ok \in BOOLEAN :
        SettlePanelImage(r, k, ok) =>
            /\ Len(panels') = Len(panels)
            /\ \A j \in 1..Len(panels) :
                  /\ panels'[j].id = panels[j].id
                  /\ panels'[j].sceneData = panels[j].sceneData
                  /\ (\A m \in 1..Len(results[r]) : results[r][m].id # panels[j].id)
                        => panels'[j] = panels[j]]_vars

\* The second batch has been applied while a panel of the first batch has
\* a regenerate in flight.
C25_Witness ==
    /\ \E s \in singles : \E j \in 1..batchSize :
            j <= Len(panels) /\ panels[j].id = s.id /\ panels[j].isLoading
    /\ \E j \in (batchSize + 1)..Len(panels) : ~panels[j].isLoading
    /\ \E r \in Runs : pc[r] = "batch" /\ i[r] >= 2 * batchSize

\* C26: in every reachable state, appState GENERATING or COMPLETE implies a
\* non-null storyConfig, and appState INPUT implies an empty panel list.
C26_StateConsistency ==
    /\ appState \in {"GENERATING", "COMPLETE"} => storyConfig # NULL
    /\ appState = "INPUT" => panels = <<>>

\* C27: a run discarded by reset during GENERATING issues no further
\* synthesis requests: its calls still outstanding are among those that were
\* outstanding before, and its loop does not start another batch.
C27_DiscardedRunIssuesNothing ==
    [][\A r \in discarded :
        /\ i'[r] = i[r] \/ PendingCalls(r)' = {}
        /\ i'[r] = i[r] => PendingCalls(r)' \subseteq PendingCalls(r)]_vars

TypeOK ==
    /\ appState \in {"INPUT", "PLANNING", "GENERATING", "COMPLETE"}
    /\ storyConfig \in 0..nruns
    /\ ncmd \in 0..env.cmds
    /\ nruns \in 0..ncmd
    /\ nregen \in 0..ncmd
====
